---- MODULE Spec2Model ----
(***************************************************************************)
(* caragols.lib.clix: the App run loop (idiom resolution, configuration   *)
(* mutation, action dispatch, outcome reporting).                          *)
(*                                                                         *)
(* A Python str is modelled as a sequence of one-character strings, so     *)
(* that split, join, startswith, slicing and the suffix/prefix tests of    *)
(* the mutation micro-language are computed character by character.        *)
(* A Python list is a sequence; None is an explicit "absent" record.       *)
(*                                                                         *)
(* caragols.lib.condo (Condex) and caragols.lib.carp (Report) are          *)
(* imported by clix.py but are not part of the source tree at hand; they   *)
(* are modelled from the written specification (sections 4.1, 4.2, 4.4).   *)
(*                                                                         *)
(* Left out: the prints of debug mode (self.mode is not 'debug'), and the  *)
(* choice of logger and level in initialize_logger/configure_logger; log   *)
(* holds the records handed to self.critical, whatever the logger does     *)
(* with them.  xtraopts is the constant {'xtraopt': 'Pass for now'}.       *)
(***************************************************************************)
EXTENDS Integers, Sequences, FiniteSets, TLC

(***************************************************************************)
(* Bounds of the model.                                                    *)
(***************************************************************************)
\* longest command line enumerated over Words (ExtraCommands adds longer ones)
MaxLen == 2
\* how many times run() is entered on one App (gui mode returns to its caller)
MaxRuns == 2

(***************************************************************************)
(* String literals used by the program and by the command lines.           *)
(***************************************************************************)
s_empty    == << >>
s_do       == <<"d","o","_">>
s_explain  == <<"e","x","p","l","a","i","n">>
s_help     == <<"h","e","l","p">>
s_make     == <<"m","a","k","e">>
s_catalog  == <<"c","a","t","a","l","o","g">>
s_bogus    == <<"b","o","g","u","s">>
s_verb     == <<"v","e","r","b">>
s_x        == <<"x">>
s_v        == <<"v">>
s_prose    == <<"p","r","o","s","e">>
s_json     == <<"j","s","o","n">>
s_warn     == <<"3","0">>
s_log      == <<"l","o","g">>
s_level    == <<"l","e","v","e","l">>
s_report   == <<"r","e","p","o","r","t">>
s_form     == <<"f","o","r","m">>
s_k        == <<"k">>
s_loaded   == <<"l","o","a","d","e","d">>

\* directive-shaped tokens
s_kset     == <<"k",":">>
s_kapp     == <<"k","+">>
s_kflag    == <<"k","!">>
s_kdel     == <<"k","~">>
s_kjset    == <<"k",".","j",":">>
s_loadd    == <<"^","d">>
s_loadn    == <<"^","n">>
s_formset  == <<"r","e","p","o","r","t",".","f","o","r","m",":">>

\* the tokens of the scenario of section 8
s_lzset    == <<"l","a","n","d","i","n","g","z","o","n","e",":">>
s_lz       == <<"l","a","n","d","i","n","g","z","o","n","e">>
s_tmplz    == <<"/","t","m","p","/","L","Z">>
s_tcapp    == <<"t","h","u","m","b","n","a","i","l","s",".","c","a","t","a","l","o","g","+">>
s_hello    == <<"h","e","l","l","o",".","p","n","g">>
s_tpflag   == <<"t","h","u","m","b","n","a","i","l","s",".","p","r","o","c","e","s","s","e","d","!">>
s_thumbs   == <<"t","h","u","m","b","n","a","i","l","s">>
s_processed == <<"p","r","o","c","e","s","s","e","d">>
s_extra    == <<"e","x","t","r","a">>

\* attribute names of the App classes
a_begun    == <<"b","e","g","u","n">>
a_do       == <<"d","o","_">>
a_do_explain == <<"d","o","_","e","x","p","l","a","i","n">>
a_do_help  == <<"d","o","_","h","e","l","p">>
a_do_make  == <<"d","o","_","m","a","k","e">>
a_do_make_catalog == <<"d","o","_","m","a","k","e","_","c","a","t","a","l","o","g">>
a_done     == <<"d","o","n","e">>
a_run      == <<"r","u","n">>

(***************************************************************************)
(* Python str and list primitives.                                         *)
(***************************************************************************)
Min(a, b) == IF a < b THEN a ELSE b

\* s[:n]
Take(s, n) == SubSeq(s, 1, Min(n, Len(s)))

\* s[n:]
Drop(s, n) == SubSeq(s, Min(n, Len(s)) + 1, Len(s))

\* s.startswith(p)
startswith(s, p) == Len(s) >= Len(p) /\ SubSeq(s, 1, Len(p)) = p

RECURSIVE SplitAcc(_, _, _, _)
SplitAcc(s, sep, cur, acc) ==
    IF s = << >> THEN Append(acc, cur)
    ELSE IF Head(s) = sep
         THEN SplitAcc(Tail(s), sep, << >>, Append(acc, cur))
         ELSE SplitAcc(Tail(s), sep, Append(cur, Head(s)), acc)

\* a split that yields no piece for the empty string (not what str.split(sep) does)
splitNoEmpty(s, sep) == IF s = << >> THEN << >> ELSE SplitAcc(s, sep, << >>, << >>)

\* s.split(sep) with an explicit separator: "".split("_") is [""]
split(s, sep) == SplitAcc(s, sep, << >>, << >>)

RECURSIVE join(_, _)
\* sep.join(parts)
join(sep, parts) ==
    IF parts = << >> THEN << >>
    ELSE IF Len(parts) = 1 THEN parts[1]
    ELSE parts[1] \o sep \o join(sep, Tail(parts))

\* code-point order of the characters that occur in action names
Alphabet == <<"a","b","c","d","e","f","g","h","i","j","k","l","m",
              "n","o","p","q","r","s","t","u","v","w","x","y","z">>

ord(c) == CHOOSE i \in 1..Len(Alphabet) : Alphabet[i] = c

RECURSIVE StrLess(_, _)
\* a < b on str
StrLess(a, b) ==
    IF b = << >> THEN FALSE
    ELSE IF a = << >> THEN TRUE
    ELSE IF Head(a) = Head(b) THEN StrLess(Tail(a), Tail(b))
    ELSE ord(Head(a)) < ord(Head(b))

RECURSIVE ListLess(_, _)
\* a < b on lists of str
ListLess(a, b) ==
    IF b = << >> THEN FALSE
    ELSE IF a = << >> THEN TRUE
    ELSE IF Head(a) = Head(b) THEN ListLess(Tail(a), Tail(b))
    ELSE StrLess(Head(a), Head(b))

(***************************************************************************)
(* Action discovery and the idiom table.                                   *)
(***************************************************************************)
\* dir(self) of three App classes, in the (sorted) order dir() answers
AppAttrs  == <<a_begun, a_do_explain, a_do_help, a_done, a_run>>
MakeAttrs == <<a_begun, a_do_explain, a_do_help, a_do_make, a_do_make_catalog,
               a_done, a_run>>
BareAttrs == <<a_begun, a_do, a_do_explain, a_do_help, a_do_make,
               a_do_make_catalog, a_done, a_run>>
Classes   == {AppAttrs, MakeAttrs, BareAttrs}

\* the tokens of an action name if the bare prefix gave no token at all
ActionTokensNoEmpty(attr) == splitNoEmpty(Drop(attr, 3), "_")

\* attr[3:].split('_')
ActionTokens(attr) == split(Drop(attr, 3), "_")

RECURSIVE Discover(_)
\* the loop over dir(self) that fills self.dispatches
Discover(attrs) ==
    IF attrs = << >> THEN << >>
    ELSE IF startswith(Head(attrs), s_do)
         THEN << [tokens |-> ActionTokens(Head(attrs)), action |-> Head(attrs)] >>
              \o Discover(Tail(attrs))
         ELSE Discover(Tail(attrs))

\* (gravity, tokens, action) tuples
Idiom(d) == [gravity |-> Len(d.tokens), tokens |-> d.tokens, action |-> d.action]

\* tuple order on (gravity, tokens, ...); token lists are distinct per action
IdiomLess(a, b) ==
    \/ a.gravity < b.gravity
    \/ a.gravity = b.gravity /\ ListLess(a.tokens, b.tokens)

RECURSIVE InsertDesc(_, _)
InsertDesc(x, sorted) ==
    IF sorted = << >> THEN << x >>
    ELSE IF IdiomLess(Head(sorted), x) THEN << x >> \o sorted
    ELSE << Head(sorted) >> \o InsertDesc(x, Tail(sorted))

RECURSIVE SortDesc(_)
SortDesc(s) == IF s = << >> THEN << >> ELSE InsertDesc(Head(s), SortDesc(Tail(s)))

RECURSIVE InsertAsc(_, _)
InsertAsc(x, sorted) ==
    IF sorted = << >> THEN << x >>
    ELSE IF IdiomLess(x, Head(sorted)) THEN << x >> \o sorted
    ELSE << Head(sorted) >> \o InsertAsc(x, Tail(sorted))

RECURSIVE SortAsc(_)
SortAsc(s) == IF s = << >> THEN << >> ELSE InsertAsc(Head(s), SortAsc(Tail(s)))

\* the idiom table without reverse=True: lowest gravity first
idiomsAscending(disp) == SortAsc([i \in 1..Len(disp) |-> Idiom(disp[i])])

\* App.idioms: sorted((gravity, tokens, action) ...), reverse=True
idioms(disp) == SortDesc([i \in 1..Len(disp) |-> Idiom(disp[i])])

(***************************************************************************)
(* Configuration Tree (condo.Condex), after sections 3 and 4.1.            *)
(* A tree is a function from the paths present in it to their nodes; the   *)
(* root path << >> is always present and always a Mapping.                 *)
(***************************************************************************)
MapNode       == [kind |-> "map", val |-> << >>]
Scalar(v)     == [kind |-> "scalar", val |-> << v >>]
SeqNode(vs)   == [kind |-> "seq", val |-> vs]
TrueNode      == [kind |-> "true", val |-> << >>]

EmptyTree == (<< >> :> MapNode)

IsPrefix(p, q) == Len(p) <= Len(q) /\ SubSeq(q, 1, Len(p)) = p

\* a dotted key split into its path segments
Path(key) == split(key, ".")

\* get(path, default): never fails
get(tree, path, default) == IF path \in DOMAIN tree THEN tree[path] ELSE default

\* contains(path)
contains(tree, path) == path \in DOMAIN tree

\* an intermediate segment exists and is not a Mapping
Conflict(tree, path) ==
    \E i \in 1..(Len(path) - 1) :
        /\ Take(path, i) \in DOMAIN tree
        /\ tree[Take(path, i)].kind # "map"

\* set(path, value) when there is no conflict: intermediate Mappings are created,
\* the terminal segment (and whatever was below it) is overwritten
TreeSet(tree, path, node) ==
    [q \in ({r \in DOMAIN tree : ~IsPrefix(path, r)}
            \cup {Take(path, i) : i \in 0..Len(path)}) |->
        IF q = path THEN node
        ELSE IF q \in DOMAIN tree THEN tree[q] ELSE MapNode]

\* removal of path and of everything below it; an absent path is left alone
TreeDelete(tree, path) ==
    [q \in {r \in DOMAIN tree : ~IsPrefix(path, r)} |-> tree[q]]

\* update(other): deep merge, other wins wherever both are not Mappings
update(tree, other) ==
    LET replaced(q) ==
            \E p \in DOMAIN other :
                /\ IsPrefix(p, q)
                /\ \/ other[p].kind # "map"
                   \/ p \in DOMAIN tree /\ tree[p].kind # "map"
    IN  [q \in (DOMAIN other \cup {r \in DOMAIN tree : ~replaced(r)}) |->
            IF q \in DOMAIN other THEN other[q] ELSE tree[q]]

\* toJDN(): the plain nested-mapping form of the tree
toJDN(tree) == tree

\* App.DEFAULTS merged into a fresh Condex
DefaultsTree ==
    TreeSet(TreeSet(EmptyTree, <<s_log, s_level>>, Scalar(s_warn)),
            <<s_report, s_form>>, Scalar(s_prose))

\* DEFAULTS plus a conf*.yml that sets the scalar k
ConfiguredTree == TreeSet(DefaultsTree, <<s_k>>, Scalar(s_v))

\* the trees self.conf can hold when run() is first entered
InitConfs == {EmptyTree, DefaultsTree, ConfiguredTree}

\* the one configuration source an alias resolves to
AliasDoc ==
    TreeSet(TreeSet(EmptyTree, <<s_report, s_form>>, Scalar(s_json)),
            <<s_loaded>>, TrueNode)

\* the alias names the external resolver knows
Resolvable == { <<"d">> }

(***************************************************************************)
(* Mutation Interpreter (Condex.sed), after section 4.2.                   *)
(***************************************************************************)
Last(s)  == s[Len(s)]
Front(s) == SubSeq(s, 1, Len(s) - 1)

\* the directive shape of a raw token: trailing character, then leading character
Shape(tok) ==
    IF tok = << >> THEN "bareword"
    ELSE IF Last(tok) = ":" THEN "set"
    ELSE IF Last(tok) = "+" THEN "append"
    ELSE IF Last(tok) = "!" THEN "flag"
    ELSE IF Last(tok) = "~" THEN "delete"
    ELSE IF Head(tok) = "^" THEN "load"
    ELSE "bareword"

SedResult(tree, bare, used, err) ==
    [conf |-> tree, barewords |-> bare, consumed |-> used, err |-> err]

RECURSIVE sedFrom(_, _, _, _)
\* tokens are taken strictly left to right; an operand is taken raw
sedFrom(tree, toks, bare, used) ==
    IF toks = << >> THEN SedResult(tree, bare, used, "none")
    ELSE
    LET tok  == Head(toks)
        sh   == Shape(tok)
        path == Path(Front(tok))
    IN  IF sh = "bareword"
          THEN sedFrom(tree, Tail(toks), Append(bare, tok), used)
        ELSE IF sh = "set"
          THEN IF Len(toks) < 2
                 THEN SedResult(tree, bare, used, "MutationSyntaxError")
               ELSE IF Conflict(tree, path)
                 THEN SedResult(tree, bare, used, "ConfigurationConflict")
               ELSE sedFrom(TreeSet(tree, path, Scalar(toks[2])),
                            Tail(Tail(toks)), bare, used \o <<tok, toks[2]>>)
        ELSE IF sh = "append"
          THEN IF Len(toks) < 2
                 THEN SedResult(tree, bare, used, "MutationSyntaxError")
               ELSE IF ~contains(tree, path)
                 THEN IF Conflict(tree, path)
                        THEN SedResult(tree, bare, used, "ConfigurationConflict")
                      ELSE sedFrom(TreeSet(tree, path, SeqNode(<<toks[2]>>)),
                                   Tail(Tail(toks)), bare, used \o <<tok, toks[2]>>)
               ELSE IF tree[path].kind = "seq"
                 THEN sedFrom(TreeSet(tree, path,
                                      SeqNode(Append(tree[path].val, toks[2]))),
                              Tail(Tail(toks)), bare, used \o <<tok, toks[2]>>)
               ELSE SedResult(tree, bare, used, "ConfigurationConflict")
        ELSE IF sh = "flag"
          THEN IF Conflict(tree, path)
                 THEN SedResult(tree, bare, used, "ConfigurationConflict")
               ELSE sedFrom(TreeSet(tree, path, TrueNode),
                            Tail(toks), bare, Append(used, tok))
        ELSE IF sh = "delete"
          THEN sedFrom(TreeDelete(tree, path), Tail(toks), bare, Append(used, tok))
        ELSE \* load alias
               IF Tail(tok) \in Resolvable
                 THEN sedFrom(update(tree, AliasDoc), Tail(toks), bare,
                              Append(used, tok))
               ELSE SedResult(tree, bare, used, "ConfigurationLoadError")

\* conf.sed(args): the mutated tree, the barewords, the tokens consumed as
\* directives and operands, and the error raised ("none" when it returns)
sed(tree, args) == sedFrom(tree, args, << >>, << >>)

(***************************************************************************)
(* Outcome model (carp.Report), after section 4.4.                         *)
(***************************************************************************)
\* data is << >> for None and << d >> for a payload d
Report(status, body, data) == [status |-> status, body |-> body, data |-> data]

\* the App has no report attribute yet: getattr(self, 'report', None) is None
NoReport == Report("None", "", << >>)

\* report.status.indicates_failure
indicates_failure(rep) == rep.status \in {"Failure", "Exception"}

\* report.formatted(form): the rendering of the outcome in the selected form
formatted(rep, form) ==
    [form |-> form, status |-> rep.status, body |-> rep.body, data |-> rep.data]

(***************************************************************************)
(* Completion methods of App.                                              *)
(***************************************************************************)
succeeded(msg, dex) == Report("Success", msg, dex)
finished(msg, dex)  == Report("Inconclusive", msg, dex)
failed(msg, dex)    == Report("Failure", msg, dex)
\* crashed also emits msg at critical severity: see Critical
crashed(msg, dex)   == Report("Exception", msg, dex)

\* a critical() that hands nothing to the logger
CriticalDropped(lg, msg) == lg

\* self.critical(msg): the record handed to the logger
Critical(lg, msg) == Append(lg, [level |-> "CRITICAL", msg |-> msg])

\* the report and log after a completion method op is called with (msg, None)
Complete(op, msg, rep, lg) ==
    CASE op = "succeeded" -> [report |-> succeeded(msg, << >>), log |-> lg]
      [] op = "finished"  -> [report |-> finished(msg, << >>), log |-> lg]
      [] op = "failed"    -> [report |-> failed(msg, << >>), log |-> lg]
      [] op = "crashed"   -> [report |-> crashed(msg, << >>), log |-> Critical(lg, msg)]
      [] OTHER            -> [report |-> rep, log |-> lg]

(***************************************************************************)
(* Idiom resolution.                                                       *)
(***************************************************************************)
RECURSIVE FirstMatch(_, _, _)
\* the loop of cognize: index of the first idiom with comargs[:gravity] == tokens
FirstMatch(ids, comargs, i) ==
    IF i > Len(ids) THEN 0
    ELSE IF Take(comargs, ids[i].gravity) = ids[i].tokens THEN i
    ELSE FirstMatch(ids, comargs, i + 1)

\* the whole command line instead of comargs[gravity:]
RemainderWhole(comargs, gravity) == comargs

\* comargs[gravity + 1:] instead of comargs[gravity:]
RemainderOffByOne(comargs, gravity) == Drop(comargs, gravity + 1)

\* confargs = comargs[gravity:]
Remainder(comargs, gravity) == Drop(comargs, gravity)

NoMatch ==
    [found |-> FALSE, tokens |-> << >>, action |-> << >>, barewords |-> << >>,
     cmd |-> << >>, confargs |-> << >>, consumed |-> << >>, before |-> EmptyTree]

\* App.cognize: found is FALSE for the answer None; conf and err are what
\* conf.sed left behind; cmd, confargs, consumed and before record the call
cognize(disp, tree, comargs) ==
    LET ids == idioms(disp)
        i   == FirstMatch(ids, comargs, 1)
    IN  IF i = 0
        THEN [found |-> FALSE, tokens |-> << >>, action |-> << >>,
              barewords |-> << >>, cmd |-> comargs, confargs |-> << >>,
              consumed |-> << >>, before |-> tree, conf |-> tree, err |-> "none"]
        ELSE LET confargs == Remainder(comargs, ids[i].gravity)
                 r        == sed(tree, confargs)
             IN  [found |-> TRUE, tokens |-> ids[i].tokens, action |-> ids[i].action,
                  barewords |-> r.barewords, cmd |-> comargs, confargs |-> confargs,
                  consumed |-> r.consumed, before |-> tree, conf |-> r.conf,
                  err |-> r.err]

\* the fields of a cognize answer that run keeps in matched
Answer(c) ==
    [found |-> c.found, tokens |-> c.tokens, action |-> c.action,
     barewords |-> c.barewords, cmd |-> c.cmd, confargs |-> c.confargs,
     consumed |-> c.consumed, before |-> c.before]

\* action.__doc__ of the actions of the classes modelled
Doc(action) ==
    IF action = a_do_help
    THEN "show all command patterns and their help messages"
    ELSE "None"

\* a do_explain that reports the idiom words as the arguments
do_explainArgsSwapped(comwords, action, barewords, tree) ==
    succeeded("explaining",
              << [idiom   |-> join(<<" ">>, comwords),
                  method  |-> action,
                  args    |-> comwords,
                  doc     |-> Doc(action),
                  context |-> toJDN(tree)] >>)

\* App.do_explain(comwords, action, barewords)
do_explain(comwords, action, barewords, tree) ==
    succeeded("explaining",
              << [idiom   |-> join(<<" ">>, comwords),
                  method  |-> action,
                  args    |-> barewords,
                  doc     |-> Doc(action),
                  context |-> toJDN(tree)] >>)

\* App.do_help(barewords)
do_help(barewords) == succeeded("help", << >>)

(***************************************************************************)
(* The command lines and the behaviours of the opaque actions.             *)
(***************************************************************************)
Words == {s_make, s_catalog, s_help, s_explain, s_x, s_empty,
          s_kset, s_kapp, s_kflag, s_kdel, s_kjset, s_loadd, s_loadn}

BoundedSeq(S, n) == UNION {[1..m -> S] : m \in 0..n}

Scenario == <<s_lzset, s_tmplz, s_tcapp, s_hello, s_tpflag, s_extra>>

ExtraCommands ==
    { <<s_make, s_catalog, s_x>>,
      <<s_bogus, s_verb>>,
      <<s_help>> \o Scenario,
      <<s_explain, s_make, s_catalog, s_kset, s_v, s_x>>,
      <<s_help, s_x, s_kset, s_kflag, s_catalog>>,
      <<s_make, s_kapp, s_x, s_kapp, s_kdel, s_help>>,
      <<s_explain, s_explain, s_x>> }

Commands == BoundedSeq(Words, MaxLen) \cup ExtraCommands

\* "batch" stands for any run_mode that is neither "cli" nor "gui"
RunModes == {"cli", "gui", "batch"}

\* what a subclass action may do: call one completion method (or none), then
\* return or raise Exception("boom")
Behaviours == [op : {"none", "succeeded", "finished", "failed", "crashed"},
               raises : BOOLEAN]

NoAct == [op |-> "none", raises |-> FALSE]

(***************************************************************************)
(* State.                                                                  *)
(***************************************************************************)
VARIABLES
    run_mode,    \* the run_mode argument of __init__ and run
    argv,        \* the comargs argument of __init__
    comargs,     \* self.comargs
    dispatches,  \* self.dispatches
    conf,        \* self.conf
    report,      \* self.report
    log,         \* the records handed to self.logger at critical severity
    stdout,      \* what was written to sys.stdout (a newline follows each)
    exited,      \* << >>, or << code >> once sys.exit(code) was called
    returned,    \* << >>, << status >> once run returned {'status': status},
                 \* << "None" >> once it returned None
    raised,      \* "none", or the error that propagated out of run
    pc,          \* where run stands
    explaining,  \* local of run
    matched,     \* local of run: the answer of cognize
    invoked,     \* the matched action was called in this run
    acted,       \* what the called action did
    runs         \* how many times run was entered

vars == <<run_mode, argv, comargs, dispatches, conf, report, log, stdout, exited,
          returned, raised, pc, explaining, matched, invoked, acted, runs>>

\* the App as __init__ leaves it just before it calls self.run
Init ==
    /\ run_mode \in RunModes
    /\ comargs \in Commands
    /\ argv = comargs
    /\ \E cls \in Classes : dispatches = Discover(cls)
    /\ conf \in InitConfs
    /\ report = NoReport
    /\ log = << >>
    /\ stdout = << >>
    /\ exited = << >>
    /\ returned = << >>
    /\ raised = "none"
    /\ pc = "run"
    /\ explaining = FALSE
    /\ matched = NoMatch
    /\ invoked = FALSE
    /\ acted = NoAct
    /\ runs = 0

\* run, lines 243-267: begun(), the locals, the explain special case
RunBegin ==
    /\ pc = "run"
    /\ explaining' = (comargs # << >> /\ comargs[1] = s_explain)
    /\ comargs' = IF explaining' THEN Tail(comargs) ELSE comargs
    /\ matched' = NoMatch
    /\ invoked' = FALSE
    /\ acted' = NoAct
    /\ runs' = runs + 1
    /\ pc' = "cognize"
    /\ UNCHANGED <<run_mode, argv, dispatches, conf, report, log, stdout, exited,
                   returned, raised>>

\* run, line 268: cognize answers (a match and its barewords, or None)
Cognize ==
    /\ pc = "cognize"
    /\ LET c == cognize(dispatches, conf, comargs)
       IN  /\ c.err = "none"
           /\ matched' = Answer(c)
           /\ conf' = c.conf
    /\ pc' = "dispatch"
    /\ UNCHANGED <<run_mode, argv, comargs, dispatches, report, log, stdout, exited,
                   returned, raised, explaining, invoked, acted, runs>>

\* run, line 268: conf.sed raises inside cognize; nothing in run catches it, the
\* mutations applied before the failing token stay in self.conf
CognizeRaises ==
    /\ pc = "cognize"
    /\ LET c == cognize(dispatches, conf, comargs)
       IN  /\ c.err # "none"
           /\ conf' = c.conf
           /\ raised' = c.err
    /\ pc' = "raised"
    /\ UNCHANGED <<run_mode, argv, comargs, dispatches, report, log, stdout, exited,
                   returned, explaining, matched, invoked, acted, runs>>

\* run, lines 276-278: the dry run
Explain ==
    /\ pc = "dispatch"
    /\ matched.found
    /\ explaining
    /\ report' = do_explain(matched.tokens, matched.action, matched.barewords, conf)
    /\ pc' = "check"
    /\ UNCHANGED <<run_mode, argv, comargs, dispatches, conf, log, stdout, exited,
                   returned, raised, explaining, matched, invoked, acted, runs>>

\* run, line 284, when the matched action is App.do_help
InvokeHelp ==
    /\ pc = "dispatch"
    /\ matched.found
    /\ ~explaining
    /\ matched.action = a_do_help
    /\ report' = do_help(matched.barewords)
    /\ invoked' = TRUE
    /\ acted' = [op |-> "succeeded", raises |-> FALSE]
    /\ pc' = "check"
    /\ UNCHANGED <<run_mode, argv, comargs, dispatches, conf, log, stdout, exited,
                   returned, raised, explaining, matched, runs>>

\* run, line 284: a subclass action is called and returns
ActionReturns ==
    /\ pc = "dispatch"
    /\ matched.found
    /\ ~explaining
    /\ matched.action \notin {a_do_help, a_do_explain}
    /\ \E b \in Behaviours :
        /\ ~b.raises
        /\ LET done == Complete(b.op, "ok", report, log)
           IN  /\ report' = done.report
               /\ log' = done.log
        /\ acted' = b
    /\ invoked' = TRUE
    /\ pc' = "check"
    /\ UNCHANGED <<run_mode, argv, comargs, dispatches, conf, stdout, exited,
                   returned, raised, explaining, matched, runs>>

\* run, lines 284-288: a subclass action is called and raises; the handler
\* records crashed(str(err))
ActionRaises ==
    /\ pc = "dispatch"
    /\ matched.found
    /\ ~explaining
    /\ matched.action \notin {a_do_help, a_do_explain}
    /\ \E b \in Behaviours :
        /\ b.raises
        /\ LET done == Complete(b.op, "ok", report, log)
           IN  /\ report' = crashed("boom", << >>)
               /\ log' = Critical(done.log, "boom")
        /\ acted' = b
    /\ invoked' = TRUE
    /\ pc' = "check"
    /\ UNCHANGED <<run_mode, argv, comargs, dispatches, conf, stdout, exited,
                   returned, raised, explaining, matched, runs>>

\* run, lines 289-291: cognize answered None
NoMatchFails ==
    /\ pc = "dispatch"
    /\ ~matched.found
    /\ report' = failed("Bad request due to no \"matched\".\ntry using \"help\" command?",
                        << >>)
    /\ pc' = "check"
    /\ UNCHANGED <<run_mode, argv, comargs, dispatches, conf, log, stdout, exited,
                   returned, raised, explaining, matched, invoked, acted, runs>>

\* run, lines 299-300: no report on the App is a crash
CheckReport ==
    /\ pc = "check"
    /\ IF report = NoReport
       THEN /\ report' = crashed("no report returned by action!", << >>)
            /\ log' = Critical(log, "no report returned by action!")
       ELSE UNCHANGED <<report, log>>
    /\ pc' = "render"
    /\ UNCHANGED <<run_mode, argv, comargs, dispatches, conf, stdout, exited,
                   returned, raised, explaining, matched, invoked, acted, runs>>

\* the form the report is rendered in: conf.get('report.form', 'prose')
Form(tree) == get(tree, Path(Front(s_formset)), Scalar(s_prose))

\* the exit status for a report
ExitCode(rep) == IF indicates_failure(rep) THEN 1 ELSE 0

\* run, lines 302-311: render, done(), exit
RenderCli ==
    /\ pc = "render"
    /\ run_mode = "cli"
    /\ stdout' = Append(stdout, formatted(report, Form(conf)))
    /\ exited' = << ExitCode(report) >>
    /\ pc' = "exited"
    /\ UNCHANGED <<run_mode, argv, comargs, dispatches, conf, report, log,
                   returned, raised, explaining, matched, invoked, acted, runs>>

\* run, lines 312-313: gui mode answers {'status': 'success'} whatever the report
ReturnGui ==
    /\ pc = "render"
    /\ run_mode = "gui"
    /\ returned' = << "success" >>
    /\ pc' = "returned"
    /\ UNCHANGED <<run_mode, argv, comargs, dispatches, conf, report, log, stdout,
                   exited, raised, explaining, matched, invoked, acted, runs>>

\* run, after line 313: any other run_mode falls off the end and answers None
ReturnNone ==
    /\ pc = "render"
    /\ run_mode \notin {"cli", "gui"}
    /\ returned' = << "None" >>
    /\ pc' = "returned"
    /\ UNCHANGED <<run_mode, argv, comargs, dispatches, conf, report, log, stdout,
                   exited, raised, explaining, matched, invoked, acted, runs>>

\* the caller of an App whose run returned calls run again on the same App
Rerun ==
    /\ pc = "returned"
    /\ runs < MaxRuns
    /\ returned' = << >>
    /\ pc' = "run"
    /\ UNCHANGED <<run_mode, argv, comargs, dispatches, conf, report, log, stdout,
                   exited, raised, explaining, matched, invoked, acted, runs>>

Next ==
    \/ RunBegin
    \/ Cognize
    \/ CognizeRaises
    \/ Explain
    \/ InvokeHelp
    \/ ActionReturns
    \/ ActionRaises
    \/ NoMatchFails
    \/ CheckReport
    \/ RenderCli
    \/ ReturnGui
    \/ ReturnNone
    \/ Rerun

Spec == Init /\ [][Next]_vars

(***************************************************************************)
(* Properties.                                                             *)
(***************************************************************************)
\* run has got past line 268 with an answer from cognize
Cognized == pc \in {"dispatch", "check", "render", "exited", "returned"}

\* run has got past the dispatch of lines 272-291
Dispatched == pc \in {"check", "render", "exited", "returned"}

\* run is over: it exited, returned, or an error left it
Ended == pc \in {"exited", "returned", "raised"}

PrefixOf(toks, cmd) == Len(toks) <= Len(cmd) /\ SubSeq(cmd, 1, Len(toks)) = toks

RECURSIVE PickFrom(_, _, _)
\* the tokens of toks at the positions in S, in order
PickFrom(toks, S, i) ==
    IF i > Len(toks) THEN << >>
    ELSE (IF i \in S THEN << toks[i] >> ELSE << >>) \o PickFrom(toks, S, i + 1)

RECURSIVE IsMerge(_, _, _)
\* c is an interleaving of a and b that keeps the order of both
IsMerge(a, b, c) ==
    IF c = << >> THEN a = << >> /\ b = << >>
    ELSE \/ a # << >> /\ Head(a) = Head(c) /\ IsMerge(Tail(a), b, Tail(c))
         \/ b # << >> /\ Head(b) = Head(c) /\ IsMerge(a, Tail(b), Tail(c))

RECURSIVE Scanned(_, _)
\* position i of toks is inspected for its shape: it is the first token, or
\* follows an inspected token that takes no operand, or follows an operand
Scanned(toks, i) ==
    \/ i = 1
    \/ i > 1 /\ Scanned(toks, i - 1) /\ Shape(toks[i - 1]) \notin {"set", "append"}
    \/ i > 2 /\ Scanned(toks, i - 2) /\ Shape(toks[i - 2]) \in {"set", "append"}

\* position i of toks directly follows an inspected Set or Append directive
OperandAt(toks, i) ==
    i > 1 /\ Scanned(toks, i - 1) /\ Shape(toks[i - 1]) \in {"set", "append"}

\* C1: whenever cognize answers, the idiom it selected is a registered one whose
\* tokens are the prefix of the command line, no registered idiom that is also a
\* prefix is longer, the remainder handed to the mutation interpreter is the
\* command line after that prefix; and it answers None only if no registered
\* idiom is a prefix.
C1_LongestMatch ==
    pc = "dispatch" =>
        LET cmd == matched.cmd
            D   == 1..Len(dispatches)
        IN  IF \E i \in D : PrefixOf(dispatches[i].tokens, cmd)
            THEN /\ matched.found
                 /\ \E i \in D : /\ dispatches[i].tokens = matched.tokens
                                 /\ dispatches[i].action = matched.action
                 /\ PrefixOf(matched.tokens, cmd)
                 /\ \A i \in D : PrefixOf(dispatches[i].tokens, cmd)
                                    => Len(dispatches[i].tokens) <= Len(matched.tokens)
                 /\ matched.confargs = SubSeq(cmd, Len(matched.tokens) + 1, Len(cmd))
            ELSE ~matched.found

\* [make, catalog, x] resolved to the gravity-2 idiom with remainder [x]
C1_Witness ==
    /\ pc = "dispatch"
    /\ matched.found
    /\ matched.cmd = <<s_make, s_catalog, s_x>>
    /\ matched.tokens = <<s_make, s_catalog>>
    /\ matched.action = a_do_make_catalog
    /\ matched.confargs = <<s_x>>

\* C2 (as claimed): no error propagates out of run, and a run that reaches its
\* reporting step holds exactly one Outcome.
C2_AllErrorsRecovered ==
    /\ raised = "none"
    /\ pc # "raised"
    /\ pc \in {"render", "exited", "returned"} => report # NoReport

\* C3: when an idiom matched and the mutation interpreter returned, the command
\* line is the idiom prefix followed by an order-preserving interleaving of the
\* tokens consumed as directives and operands with the barewords given to the
\* action: each token is in exactly one class, none dropped, none duplicated.
C3_TokenPartition ==
    (Cognized /\ matched.found) =>
        /\ PrefixOf(matched.tokens, matched.cmd)
        /\ IsMerge(matched.consumed, matched.barewords,
                   SubSeq(matched.cmd, Len(matched.tokens) + 1, Len(matched.cmd)))
        /\ Len(matched.tokens) + Len(matched.consumed) + Len(matched.barewords)
             = Len(matched.cmd)

\* a command line with an idiom prefix, directives with operands, and two barewords
C3_Witness ==
    /\ pc = "dispatch"
    /\ matched.found
    /\ matched.cmd = <<s_help, s_x, s_kset, s_kflag, s_catalog>>
    /\ matched.tokens = <<s_help>>
    /\ matched.consumed = <<s_kset, s_kflag>>
    /\ matched.barewords = <<s_x, s_catalog>>

\* the class registers an action named by the bare prefix do_
HasBareAction == \E i \in 1..Len(dispatches) : dispatches[i].action = a_do

\* C4 (as claimed): the bare-prefix action is registered with no tokens, and with
\* it registered every command line resolves.
C4_ZeroTokenIdiom ==
    (HasBareAction /\ pc = "dispatch") =>
        /\ \A i \in 1..Len(dispatches) :
               dispatches[i].action = a_do => dispatches[i].tokens = << >>
        /\ matched.found

\* C4 (amended): the bare-prefix action is registered with the single token ""
\* (gravity 1); it is the match exactly for the command lines whose first token
\* is the empty string, and the empty command line resolves to nothing.
C4_BareActionIsEmptyWord ==
    HasBareAction =>
        /\ \A i \in 1..Len(dispatches) :
               dispatches[i].action = a_do => dispatches[i].tokens = << s_empty >>
        /\ pc = "dispatch" =>
               /\ (matched.action = a_do)
                    <=> (matched.cmd # << >> /\ matched.cmd[1] = s_empty)
               /\ matched.cmd = << >> => ~matched.found

\* the bare-prefix action matched a command line that starts with ""
C4_Witness ==
    /\ pc = "dispatch"
    /\ matched.found
    /\ matched.action = a_do
    /\ matched.cmd[1] = s_empty

\* C5 (as claimed): every run that is over has rendered its report and ended
\* with an exit code, 0 exactly for Success and Inconclusive, nonzero exactly
\* for Failure and Exception.
C5_ExitStatus ==
    Ended =>
        /\ Len(stdout) = runs
        /\ stdout[Len(stdout)].status = report.status
        /\ exited # << >>
        /\ exited[1] = 0 <=> report.status \in {"Success", "Inconclusive"}
        /\ exited[1] # 0 <=> report.status \in {"Failure", "Exception"}

\* C6: when the command line given to the App starts with explain, that token is
\* removed before resolution; while explaining, the matched action is never
\* called; and once an explained command has resolved, the report is a Success
\* whose data holds the matched idiom words, the action's documentation, the
\* barewords and the configuration tree as the remainder's mutations left it.
C6_ExplainDryRun ==
    /\ (runs = 1 /\ pc # "run" /\ argv # << >> /\ argv[1] = s_explain) =>
           /\ explaining
           /\ comargs = Tail(argv)
           /\ Cognized => matched.cmd = Tail(argv)
    /\ explaining => ~invoked /\ acted = NoAct
    /\ (Dispatched /\ explaining /\ matched.found) =>
           /\ report.status = "Success"
           /\ Len(report.data) = 1
           /\ report.data[1].idiom = join(<<" ">>, matched.tokens)
           /\ report.data[1].doc = Doc(matched.action)
           /\ report.data[1].args = matched.barewords
           /\ report.data[1].context = sed(matched.before, matched.confargs).conf
           /\ report.data[1].context = conf

\* explain make catalog k: v x was explained: k was set before the snapshot
C6_Witness ==
    /\ pc = "render"
    /\ explaining
    /\ argv = <<s_explain, s_make, s_catalog, s_kset, s_v, s_x>>
    /\ matched.tokens = <<s_make, s_catalog>>
    /\ report.data[1].args = <<s_x>>
    /\ report.data[1].context # matched.before
    /\ report.data[1].context[<<s_k>>] = Scalar(s_v)
    /\ ~invoked

\* the tree the scenario of section 8 must leave
ScenarioTree ==
    (<< >> :> MapNode)
    @@ (<<s_lz>> :> Scalar(s_tmplz))
    @@ (<<s_thumbs>> :> MapNode)
    @@ (<<s_thumbs, s_catalog>> :> SeqNode(<<s_hello>>))
    @@ (<<s_thumbs, s_processed>> :> TrueNode)

\* C7: when the mutation interpreter returns, the barewords are exactly the
\* bareword-shaped tokens at the positions a strict left-to-right scan inspects,
\* every other token (each directive and, raw, the token after a Set or Append)
\* is consumed, no operand position contributes a bareword, the value a Set
\* leaves at its path is its operand as written, and the scenario of section 8
\* on an empty tree gives the stated tree and barewords [extra].
C7_OperandVerbatim ==
    (pc = "dispatch" /\ matched.found) =>
        LET toks == matched.confargs
            P    == 1..Len(toks)
            bare == {i \in P : Scanned(toks, i) /\ Shape(toks[i]) = "bareword"}
        IN  /\ matched.barewords = PickFrom(toks, bare, 1)
            /\ matched.consumed = PickFrom(toks, P \ bare, 1)
            /\ \A i \in P : OperandAt(toks, i) => i \notin bare
            /\ (Len(toks) >= 2 /\ OperandAt(toks, Len(toks))
                  /\ Shape(toks[Len(toks) - 1]) = "set") =>
                   conf[Path(Front(toks[Len(toks) - 1]))] = Scalar(toks[Len(toks)])
            /\ (matched.cmd = <<s_help>> \o Scenario /\ matched.before = EmptyTree) =>
                   /\ conf = ScenarioTree
                   /\ matched.barewords = <<s_extra>>
            /\ matched.cmd = <<s_help, s_x, s_kset, s_kflag, s_catalog>> =>
                   /\ conf[<<s_k>>] = Scalar(s_kflag)
                   /\ matched.barewords = <<s_x, s_catalog>>

\* the scenario was interpreted on an empty tree
C7_Witness ==
    /\ pc = "dispatch"
    /\ matched.found
    /\ matched.cmd = <<s_help>> \o Scenario
    /\ matched.confargs = Scenario
    /\ matched.before = EmptyTree
    /\ conf = ScenarioTree
    /\ matched.barewords = <<s_extra>>

\* C8 (as claimed): once a called action has returned without calling a
\* completion method, the run's outcome is the Exception "no report returned by
\* action!" and, when the run is over, the exit status is the failure status.
C8_MissingReport ==
    (invoked /\ acted = NoAct) =>
        /\ pc \in {"render", "exited", "returned"} =>
               /\ report.status = "Exception"
               /\ report.body = "no report returned by action!"
        /\ Ended => exited = << 1 >>

\* C9: once a called action has raised, the run's outcome is an Exception whose
\* body is the raised message, whatever the action had recorded before, and the
\* last record handed to the logger is critical and carries that message.
C9_ActionFailure ==
    (Dispatched /\ invoked /\ acted.raises) =>
        /\ report = Report("Exception", "boom", << >>)
        /\ log # << >>
        /\ log[Len(log)] = [level |-> "CRITICAL", msg |-> "boom"]

\* an action recorded a Success and then raised
C9_Witness ==
    /\ pc = "check"
    /\ invoked
    /\ acted = [op |-> "succeeded", raises |-> TRUE]
    /\ report.status = "Exception"

\* C10 (as claimed): when no registered idiom is a prefix of the command line, no
\* action is called, the outcome is a Failure with the guidance message, and the
\* run ends with a nonzero exit code.
C10_NoMatch ==
    (Dispatched /\ ~matched.found) =>
        /\ ~invoked
        /\ ~(\E i \in 1..Len(dispatches) : PrefixOf(dispatches[i].tokens, matched.cmd))
        /\ report.status = "Failure"
        /\ report.body = "Bad request due to no \"matched\".\ntry using \"help\" command?"
        /\ Ended => (exited # << >> /\ exited[1] # 0)

====
